---- MODULE Spec2Model ----
(***************************************************************************)
(* Model of src/src/handle_digital_ingest_notifications.py: the Lambda     *)
(* handler that relays digital-ingest notifications to the Zodiac REST API *)
(* (packages and events) and to the service-start SNS topic.               *)
(*                                                                         *)
(* Python values are tagged records [py, v]; an exception is the field err *)
(* of the execution state, and every operator that models a function       *)
(* returns the execution state it leaves behind.                           *)
(***************************************************************************)
EXTENDS Integers, Sequences, FiniteSets, TLC

VARIABLES
    events,     \* remote store: the event records, keyed by identifier
    packages,   \* remote store: package_id -> body last POSTed ("absent" if none)
    published,  \* messages published to the service-start topic, in order
    nextId,     \* source of fresh identifiers (uuid4)
    call,       \* frame of the last completed sequential call
    ninv,       \* number of sequential handler invocations completed
    procs       \* frames of the concurrent Lambda instances

vars == <<events, packages, published, nextId, call, ninv, procs>>

----------------------------------------------------------------------------
(* Bounds of the model *)

MaxInitEvents == 2      \* events already in the store before the first call
MaxPublished == 2       \* length to which the published sequence may grow
MaxInvocations == 3     \* sequential invocations counted by ninv
MaxGenerated == 3       \* identifiers construct_event_id may hand out
MaxParams == 3          \* parameters the parameter store lists under the path

Packages == {"p1", "p2"}
Services == {"ursa_major", "webhook", "foo"}
Outcomes == {"SUCCESS", "FAILURE", "success"}
PackageData == {"absent", "json"}
Instances == {1, 2}

----------------------------------------------------------------------------
(* Python values *)

PyStr(s) == [py |-> "str", v |-> s]
\* a message attribute: {'Type': 'String', 'Value': s}
PyAttr(s) == [py |-> "dict", v |-> s]
PyNone == [py |-> "None", v |-> ""]
PyList(q) == [py |-> "list", v |-> q]

\* a == b
PyEq(a, b) == a.py = b.py /\ a.v = b.v

\* bool(v)
Truthy(v) ==
    CASE v.py = "None" -> FALSE
      [] v.py = "str" -> v.v # ""
      [] v.py = "list" -> v.v # <<>>
      [] OTHER -> TRUE

\* f'{v}' inside a URL
Format(v) == IF v.py = "str" THEN v.v ELSE "{'Type': 'String', 'Value': ...}"

\* s.rstrip("/") on a string held as a sequence of tokens
RECURSIVE RStrip(_)
RStrip(s) ==
    IF s # <<>> /\ s[Len(s)] = "/" THEN RStrip(SubSeq(s, 1, Len(s) - 1)) ELSE s

----------------------------------------------------------------------------
(* Static data *)

NEXT_SERVICE_MAP == [s \in {"ursa_major", "webhook"} |->
                        IF s = "ursa_major" THEN "fornax" ELSE "aquarius"]

BaseUrlParam == [Name |-> <<"", "dev", "app", "ZODIAC_BASEURL">>,
                 Value |-> <<"https://zodiac/api", "/">>]
TopicParam == [Name |-> <<"", "dev", "app", "SERVICE_START_SNS_TOPIC">>,
               Value |-> <<"arn:aws:sns:start">>]

\* What get_parameters_by_path may list, and how many parameters the loop
\* takes in before an exception ends it (Len: none is raised).
SsmRuns ==
    { r \in [params : {<<BaseUrlParam, TopicParam>>, <<TopicParam, BaseUrlParam>>},
             stop : 0..2] :
        r.stop \in {0, 2} => r.params[1] = BaseUrlParam }

----------------------------------------------------------------------------
(* Messages and request bodies *)

Messages == [package_id : Packages, service : Services, outcome : Outcomes,
             package_data : PackageData]

NoMessage == [package_id |-> "", service |-> "", outcome |-> "",
              package_data |-> "absent"]

\* json=... bodies, one shape for every request
NoBody == [kind |-> "none", package |-> "", service |-> "", outcome |-> "",
           identifier |-> 0, package_data |-> "absent"]
\* a positional argument the caller did not pass
Missing == [NoBody EXCEPT !.kind = "missing"]

JsonLoads(s) == IF s = "json" THEN "parsed" ELSE "absent"

----------------------------------------------------------------------------
(* Execution state: the remote world plus the frame of one call.  pc is the
   statement the call stands at; "done" is a normal return, "failed" an
   exception that left the entry point (err names it). *)

Raise(x, e) == [x EXCEPT !.err = e]
Failed(x) == x.err # "none"

HasKey(config, k) == k \in DOMAIN config

Last(s) == s[Len(s)]

\* Events in ascending identifier order
RECURSIVE SortById(_)
SortById(S) ==
    IF S = {} THEN <<>>
    ELSE LET e == CHOOSE a \in S : \A b \in S : a.identifier <= b.identifier
         IN <<e>> \o SortById(S \ {e})

----------------------------------------------------------------------------
(* The remote API behind ZODIAC_BASEURL, for a request it accepts *)

\* GET {base}/packages/{package_id}/events
ServerResponse(x, url) ==
    IF url.path = "package_events"
    THEN PyList(SortById({e \in x.events : e.package = url.package}))
    ELSE PyNone

\* POST {base}/packages and POST {base}/events: upserts
ServerApply(x, url, method, body) ==
    CASE method = "post" /\ url.path = "packages" ->
            [x EXCEPT !.packages[body.package] =
                IF body.package_data = "absent" THEN "package_id"
                ELSE "package_id+package_data"]
      [] method = "post" /\ url.path = "events" ->
            [x EXCEPT !.events =
                {e \in @ : e.identifier # body.identifier}
                \cup {[identifier |-> body.identifier, package |-> body.package,
                       service |-> body.service, outcome |-> body.outcome]}]
      [] OTHER -> x

----------------------------------------------------------------------------
(* get_config *)

\* Variant: keyed by the path segment before the last.
GetConfigParent(ssm) ==
    LET taken == SubSeq(ssm.params, 1, ssm.stop)
        key(i) == taken[i].Name[Len(taken[i].Name) - 1]
        keys == {key(i) : i \in 1..Len(taken)}
        at(k) == CHOOSE i \in 1..Len(taken) :
                    /\ key(i) = k
                    /\ \A j \in (i + 1)..Len(taken) : key(j) # k
    IN [k \in keys |-> taken[at(k)].Value]

GetConfig(ssm) ==
    LET taken == SubSeq(ssm.params, 1, ssm.stop)
        keys == {Last(taken[i].Name) : i \in 1..Len(taken)}
        at(k) == CHOOSE i \in 1..Len(taken) :
                    /\ Last(taken[i].Name) = k
                    /\ \A j \in (i + 1)..Len(taken) : Last(taken[j].Name) # k
    IN [k \in keys |-> taken[at(k)].Value]

----------------------------------------------------------------------------
(* send_http_request(url, method, data): data has no default, and the
   function has no return statement. *)

\* Variant: data defaults to None and the response's JSON is returned.
SendHttpRequestReturning(x, url, method, data, ok) ==
    LET body == IF data.kind \in {"none", "missing"} THEN NoBody ELSE data
        sent == [x EXCEPT !.reqs = Append(@, [method |-> method, url |-> url,
                                              body |-> body, ok |-> ok])]
    IN IF ~ok THEN Raise(sent, "HTTPError")
       ELSE [ServerApply(sent, url, method, body) EXCEPT
                !.ret = ServerResponse(sent, url)]

SendHttpRequest(x, url, method, data, ok) ==
    IF data.kind = "missing" THEN Raise(x, "TypeError")
    ELSE LET body == IF data.kind # "none" THEN data ELSE NoBody  \* if data:
             sent == [x EXCEPT !.reqs = Append(@, [method |-> method, url |-> url,
                                                   body |-> body, ok |-> ok])]
         IN IF ~ok THEN Raise(sent, "HTTPError")
            ELSE [ServerApply(sent, url, method, body) EXCEPT !.ret = PyNone]

----------------------------------------------------------------------------
(* matching_events(package_id, service_name, baseurl, outcome=None) *)

MatchingEvents(x, package_id, service_name, baseurl, outcome, ok) ==
    LET url == [base |-> baseurl, path |-> "package_events",
                package |-> Format(package_id)]
        r == SendHttpRequest(x, url, "get", Missing, ok)
        keep(e) == IF Truthy(outcome)
                   THEN PyEq(PyStr(e.service), service_name)
                        /\ PyEq(PyStr(e.outcome), outcome)
                   ELSE PyEq(PyStr(e.service), service_name)
    IN IF Failed(r) THEN r
       ELSE LET got == [r EXCEPT !.received = r.ret]
            IN IF got.ret.py # "list" THEN Raise(got, "TypeError")
               ELSE [got EXCEPT !.ret = PyList(SelectSeq(got.ret.v, keep))]

----------------------------------------------------------------------------
(* update_package(attributes, config) *)

\* Variant: the package_data string is sent as it came, unparsed.
UpdatePackageRaw(x, attributes, config, ok) ==
    LET package_data ==
            [NoBody EXCEPT !.kind = "package",
                           !.package = attributes.package_id,
                           !.package_data = attributes.package_data]
    IN IF ~HasKey(config, "ZODIAC_BASEURL") THEN Raise(x, "KeyError")
       ELSE SendHttpRequest(
                x,
                [base |-> RStrip(config["ZODIAC_BASEURL"]), path |-> "packages",
                 package |-> ""],
                "post", package_data, ok)

UpdatePackage(x, attributes, config, ok) ==
    LET package_data ==
            [NoBody EXCEPT !.kind = "package",
                           !.package = attributes.package_id,
                           !.package_data =
                               IF attributes.package_data # "absent"
                               THEN JsonLoads(attributes.package_data)
                               ELSE "absent"]
    IN IF ~HasKey(config, "ZODIAC_BASEURL") THEN Raise(x, "KeyError")
       ELSE SendHttpRequest(
                x,
                [base |-> RStrip(config["ZODIAC_BASEURL"]), path |-> "packages",
                 package |-> ""],
                "post", package_data, ok)

----------------------------------------------------------------------------
(* construct_event_id: uuid4, taken to differ from every identifier in use *)

ConstructEventId(x) == x.nextId

(* update_events(attributes, config), lines 81-85: the lookup *)

UpdateEventsLookup(x, attributes, config, ok) ==
    IF ~HasKey(config, "ZODIAC_BASEURL") THEN Raise(x, "KeyError")
    ELSE LET r == MatchingEvents(x, PyAttr(attributes.package_id),
                                 PyAttr(attributes.service),
                                 RStrip(config["ZODIAC_BASEURL"]), PyNone, ok)
         IN IF Failed(r) THEN r ELSE [r EXCEPT !.found = r.ret.v]

(* update_events(attributes, config), lines 86-100: the write *)

UpdateEventsPost(x, attributes, config, ok) ==
    LET package_events == x.found
    IN IF Len(package_events) <= 1
       THEN LET fresh == Len(package_events) # 1
                event_data ==
                    [NoBody EXCEPT !.kind = "event",
                                   !.outcome = attributes.outcome,
                                   !.service = attributes.service,
                                   !.package = attributes.package_id,
                                   !.identifier =
                                       IF fresh THEN ConstructEventId(x)
                                       ELSE package_events[1].identifier]
                y == IF fresh
                     THEN [x EXCEPT !.nextId = @ + 1, !.nids = @ + 1]
                     ELSE x
            IN SendHttpRequest(
                    y,
                    [base |-> RStrip(config["ZODIAC_BASEURL"]), path |-> "events",
                     package |-> ""],
                    "post", event_data, ok)
       ELSE Raise(x, "Exception")

----------------------------------------------------------------------------
(* send_next_service_message(current_service, package_id, config); sns is
   what the SNS side does: "ok", "role_error" (get_client_with_role raises)
   or "publish_error" (client.publish raises). *)

\* Variant: the start message names the service that just ran.
SendNextServiceMessageCurrent(x, current_service, package_id, config, sns) ==
    IF current_service \notin DOMAIN NEXT_SERVICE_MAP
    THEN [x EXCEPT !.ret = PyNone]
    ELSE IF sns = "role_error" THEN Raise(x, "ClientError")
    ELSE IF ~HasKey(config, "SERVICE_START_SNS_TOPIC")
    THEN [x EXCEPT !.ret = PyNone]
    ELSE IF sns = "publish_error" THEN Raise(x, "ClientError")
    ELSE [x EXCEPT
            !.published = Append(@,
                [TopicArn |-> config["SERVICE_START_SNS_TOPIC"],
                 package_id |-> package_id,
                 requested_status |-> "START",
                 service |-> current_service]),
            !.npub = @ + 1,
            !.ret = PyNone]

SendNextServiceMessage(x, current_service, package_id, config, sns) ==
    IF current_service \notin DOMAIN NEXT_SERVICE_MAP
    THEN [x EXCEPT !.ret = PyNone]               \* except KeyError: pass
    ELSE LET next_service == NEXT_SERVICE_MAP[current_service]
         IN IF sns = "role_error" THEN Raise(x, "ClientError")
            ELSE IF ~HasKey(config, "SERVICE_START_SNS_TOPIC")
            THEN [x EXCEPT !.ret = PyNone]       \* except KeyError: pass
            ELSE IF sns = "publish_error" THEN Raise(x, "ClientError")
            ELSE [x EXCEPT
                    !.published = Append(@,
                        [TopicArn |-> config["SERVICE_START_SNS_TOPIC"],
                         package_id |-> package_id,
                         requested_status |-> "START",
                         service |-> next_service]),
                    !.npub = @ + 1,
                    !.ret = PyNone]

----------------------------------------------------------------------------
(* Frames.  A frame is the execution state without the remote world: the
   call's entry point and position, its arguments, the requests it issued
   (reqs), the messages it published (npub), the identifiers it generated
   (nids), the statements it ran (ran), the store as it stood when the call
   began or, in lambda_handler, when the duplicate check ran (pre), and the
   message of the delivery before it (prior), and what the parameter store
   did when get_config read it (ssm). *)

EntryPoints == {"lambda_handler", "get_config", "update_package", "update_events",
                "matching_events", "send_next_service_message"}

FirstPc(entry) == IF entry = "lambda_handler" THEN "get_config" ELSE entry

Final(f) == f.pc \in {"idle", "done", "failed"}

IdleFrame ==
    [entry |-> "none", pc |-> "idle", attributes |-> NoMessage,
     withOutcome |-> FALSE, config |-> <<>>, reqs |-> <<>>, npub |-> 0,
     nids |-> 0, err |-> "none", ret |-> PyNone, received |-> PyNone,
     found |-> <<>>, pre |-> {}, ran |-> <<>>, prior |-> NoMessage,
     ssm |-> [params |-> <<>>, stop |-> 0]]

NewFrame(entry, attributes, withOutcome, config, store) ==
    [IdleFrame EXCEPT !.entry = entry, !.pc = FirstPc(entry),
                      !.attributes = attributes, !.withOutcome = withOutcome,
                      !.config = config, !.pre = store]

World == [events |-> events, packages |-> packages, published |-> published,
          nextId |-> nextId]

Exec(w, f) ==
    [events |-> w.events, packages |-> w.packages, published |-> w.published,
     nextId |-> w.nextId,
     entry |-> f.entry, pc |-> f.pc, attributes |-> f.attributes,
     withOutcome |-> f.withOutcome, config |-> f.config, reqs |-> f.reqs,
     npub |-> f.npub, nids |-> f.nids, err |-> f.err, ret |-> f.ret,
     received |-> f.received, found |-> f.found, pre |-> f.pre, ran |-> f.ran,
     prior |-> f.prior, ssm |-> f.ssm]

FrameOf(x) ==
    [entry |-> x.entry, pc |-> x.pc, attributes |-> x.attributes,
     withOutcome |-> x.withOutcome, config |-> x.config, reqs |-> x.reqs,
     npub |-> x.npub, nids |-> x.nids, err |-> x.err, ret |-> x.ret,
     received |-> x.received, found |-> x.found, pre |-> x.pre, ran |-> x.ran,
     prior |-> x.prior, ssm |-> x.ssm]

\* What the surroundings decide for one statement: the HTTP response, the
\* parameter-store read, the SNS side.
NoEnv == [http |-> TRUE, ssm |-> [params |-> <<BaseUrlParam, TopicParam>>, stop |-> 2],
          sns |-> "ok"]

\* Parameters under a path given to get_config directly: up to MaxParams of
\* them, each name once, and the number taken in before an exception.
ParamNames == {"foo", "baz", "ZODIAC_BASEURL"}
ParamValues == {<<"bar">>, <<"buzz">>}
ParamLists ==
    UNION {{q \in [1..n -> [Name : {<<"", "dev", "digitized_av_trigger", k>> :
                                        k \in ParamNames},
                            Value : ParamValues]] :
                \A i, j \in 1..n : q[i].Name = q[j].Name => i = j}
           : n \in 0..MaxParams}
ParameterReads ==
    UNION {{[params |-> q, stop |-> k] : k \in 0..Len(q)} : q \in ParamLists}

StepEnvs(x) ==
    CASE x.pc = "get_config" ->
            {[NoEnv EXCEPT !.ssm = r] :
                r \in IF x.entry = "get_config" THEN ParameterReads ELSE SsmRuns}
      [] x.pc = "send_next_service_message" ->
            {[NoEnv EXCEPT !.sns = o] : o \in {"ok", "role_error", "publish_error"}}
      [] OTHER -> {[NoEnv EXCEPT !.http = b] : b \in BOOLEAN}

\* Variant: the package upsert runs right after the configuration load, and
\* the duplicate check after it.
AfterUpsertFirst(x, pc) ==
    CASE pc = "get_config" ->
            IF x.entry = "lambda_handler" THEN "update_package" ELSE "done"
      [] pc = "update_package" ->
            IF x.entry = "lambda_handler" THEN "matching_events" ELSE "done"
      [] pc = "matching_events" ->
            IF x.entry = "lambda_handler" /\ Len(x.ret.v) = 0
            THEN "update_events" ELSE "done"
      [] pc = "update_events" -> "update_events_post"
      [] pc = "update_events_post" ->
            IF x.entry = "lambda_handler" /\ x.attributes.outcome = "SUCCESS"
            THEN "send_next_service_message" ELSE "done"
      [] OTHER -> "done"

\* where control goes after the statement at pc returned normally
After(x, pc) ==
    CASE pc = "get_config" ->
            IF x.entry = "lambda_handler" THEN "matching_events" ELSE "done"
      [] pc = "matching_events" ->
            IF x.entry = "lambda_handler" /\ Len(x.ret.v) = 0
            THEN "update_package" ELSE "done"
      [] pc = "update_package" ->
            IF x.entry = "lambda_handler" THEN "update_events" ELSE "done"
      [] pc = "update_events" -> "update_events_post"
      [] pc = "update_events_post" ->
            IF x.entry = "lambda_handler" /\ x.attributes.outcome = "SUCCESS"
            THEN "send_next_service_message" ELSE "done"
      [] OTHER -> "done"

\* Variant: the handler reads the base URL with config.get('ZODIAC_BASEURL', '')
\* and goes on to the duplicate check when the key is missing.
StepDefaultBaseUrl(x, e) ==
    LET a == x.attributes
        y == [x EXCEPT !.ran = Append(@, x.pc)]
        r == CASE x.pc = "get_config" ->
                    [y EXCEPT !.config = GetConfig(e.ssm), !.ssm = e.ssm]
               [] x.pc = "matching_events" ->
                    IF x.entry # "lambda_handler"
                    THEN MatchingEvents(
                            y, PyStr(a.package_id), PyStr(a.service), <<"baseurl">>,
                            IF x.withOutcome THEN PyStr(a.outcome) ELSE PyNone,
                            e.http)
                    ELSE MatchingEvents(
                            [y EXCEPT !.pre = y.events],
                            PyStr(a.package_id), PyStr(a.service),
                            IF HasKey(x.config, "ZODIAC_BASEURL")
                            THEN RStrip(x.config["ZODIAC_BASEURL"]) ELSE <<>>,
                            PyStr(a.outcome), e.http)
               [] x.pc = "update_package" -> UpdatePackage(y, a, x.config, e.http)
               [] x.pc = "update_events" -> UpdateEventsLookup(y, a, x.config, e.http)
               [] x.pc = "update_events_post" -> UpdateEventsPost(y, a, x.config, e.http)
               [] x.pc = "send_next_service_message" ->
                    SendNextServiceMessage(y, a.service, a.package_id, x.config, e.sns)
               [] OTHER -> y
    IN IF Failed(r) THEN [r EXCEPT !.pc = "failed"]
       ELSE [r EXCEPT !.pc = After(r, x.pc)]

(* lambda_handler, one statement at a time; the statements of update_package,
   update_events, matching_events and send_next_service_message are also
   what a direct call of those functions runs. *)
Step(x, e) ==
    LET a == x.attributes
        y == [x EXCEPT !.ran = Append(@, x.pc)]
        r == CASE x.pc = "get_config" ->
                    [y EXCEPT !.config = GetConfig(e.ssm), !.ssm = e.ssm]
               [] x.pc = "matching_events" ->
                    IF x.entry # "lambda_handler"
                    THEN MatchingEvents(
                            y, PyStr(a.package_id), PyStr(a.service), <<"baseurl">>,
                            IF x.withOutcome THEN PyStr(a.outcome) ELSE PyNone,
                            e.http)
                    ELSE IF ~HasKey(x.config, "ZODIAC_BASEURL")
                    THEN Raise(y, "KeyError")
                    ELSE MatchingEvents(
                            [y EXCEPT !.pre = y.events],
                            PyStr(a.package_id), PyStr(a.service),
                            RStrip(x.config["ZODIAC_BASEURL"]),
                            PyStr(a.outcome), e.http)
               [] x.pc = "update_package" -> UpdatePackage(y, a, x.config, e.http)
               [] x.pc = "update_events" -> UpdateEventsLookup(y, a, x.config, e.http)
               [] x.pc = "update_events_post" -> UpdateEventsPost(y, a, x.config, e.http)
               [] x.pc = "send_next_service_message" ->
                    SendNextServiceMessage(y, a.service, a.package_id, x.config, e.sns)
               [] OTHER -> y
    IN IF Failed(r) THEN [r EXCEPT !.pc = "failed"]
       ELSE [r EXCEPT !.pc = After(r, x.pc)]

\* every way a call can run from x to its end
RECURSIVE RunAll(_)
RunAll(x) ==
    IF Final(x) THEN {x}
    ELSE UNION {RunAll(Step(x, e)) : e \in StepEnvs(x)}

LambdaHandler(w, event) ==
    RunAll(Exec(w, NewFrame("lambda_handler", event, TRUE, <<>>, w.events)))

----------------------------------------------------------------------------
(* Initial states *)

\* Events other writers left in the store: up to MaxInitEvents of these,
\* identified 1, 2, ...
InitEventKinds == [package : {"p1"}, service : {"ursa_major", "foo"},
                   outcome : {"SUCCESS", "FAILURE"}]

InitStores ==
    UNION {{ {[identifier |-> i, package |-> q[i].package, service |-> q[i].service,
               outcome |-> q[i].outcome] : i \in 1..n} :
             q \in [1..n -> InitEventKinds] } : n \in 0..MaxInitEvents}

IdLimit == MaxInitEvents + MaxGenerated + 1

Configs == {GetConfig(r) : r \in SsmRuns}

InitWith(stores) ==
    /\ events \in stores
    /\ packages = [p \in Packages |-> "absent"]
    /\ published = <<>>
    /\ nextId = MaxInitEvents + 1
    /\ call = IdleFrame
    /\ ninv = 0
    /\ procs = [i \in Instances |-> IdleFrame]

Init == InitWith(InitStores)
InitEmpty == InitWith({{}})

----------------------------------------------------------------------------
(* Sequential calls: a call runs to its end before the next begins *)

InBounds(y) == y.nextId <= IdLimit /\ Len(y.published) <= MaxPublished

Commit(y) ==
    /\ InBounds(y)
    /\ events' = y.events
    /\ packages' = y.packages
    /\ published' = y.published
    /\ nextId' = y.nextId
    /\ call' = FrameOf(y)

Invoke(entry, m, withOutcome, config) ==
    \E y \in RunAll(Exec(World, NewFrame(entry, m, withOutcome, config, events))) :
        Commit(y)

\* one notification delivered to the Lambda function
InvokeLambdaHandler ==
    /\ \E m \in Messages : \E y \in LambdaHandler(World, m) : Commit(y)
    /\ UNCHANGED <<ninv, procs>>

\* the same, counting the deliveries and keeping the message delivered before
DeliverNotification ==
    /\ ninv < MaxInvocations
    /\ \E m \in Messages :
          \E y \in LambdaHandler(World, m) :
              Commit([y EXCEPT !.prior = IF ninv = 0 THEN NoMessage
                                        ELSE call.attributes])
    /\ ninv' = ninv + 1
    /\ UNCHANGED procs

\* Direct calls draw only the inputs the function reads; the rest of the
\* message is held fixed.
PackageInputs == {m \in Messages : m.service = "foo" /\ m.outcome = "SUCCESS"}
EventInputs == {m \in Messages : m.package_data = "absent"}
TriggerInputs == {m \in EventInputs : m.outcome = "SUCCESS"}
BaseUrlConfigs == {c \in Configs : DOMAIN c \subseteq {"ZODIAC_BASEURL"}}

InvokeGetConfig ==
    /\ Invoke("get_config", NoMessage, FALSE, <<>>)
    /\ UNCHANGED <<ninv, procs>>

InvokeUpdatePackage ==
    /\ \E m \in PackageInputs, c \in BaseUrlConfigs :
            Invoke("update_package", m, FALSE, c)
    /\ UNCHANGED <<ninv, procs>>

InvokeUpdateEvents ==
    /\ \E m \in EventInputs, c \in BaseUrlConfigs :
            Invoke("update_events", m, FALSE, c)
    /\ UNCHANGED <<ninv, procs>>

InvokeMatchingEvents ==
    /\ \E m \in EventInputs, o \in BOOLEAN : Invoke("matching_events", m, o, <<>>)
    /\ UNCHANGED <<ninv, procs>>

InvokeSendNextServiceMessage ==
    /\ \E m \in TriggerInputs, c \in Configs :
            Invoke("send_next_service_message", m, FALSE, c)
    /\ UNCHANGED <<ninv, procs>>

----------------------------------------------------------------------------
(* Concurrent Lambda instances: each statement that talks to the remote
   world is one step, and steps of different instances interleave. *)

RaceStart(i) ==
    /\ procs[i].pc = "idle"
    /\ \E m \in Messages :
            procs' = [procs EXCEPT
                        ![i] = NewFrame("lambda_handler", m, TRUE, <<>>, events)]
    /\ UNCHANGED <<events, packages, published, nextId, call, ninv>>

RaceStep(i) ==
    /\ ~Final(procs[i])
    /\ \E e \in StepEnvs(Exec(World, procs[i])) :
          LET y == Step(Exec(World, procs[i]), e)
          IN /\ InBounds(y)
             /\ events' = y.events
             /\ packages' = y.packages
             /\ published' = y.published
             /\ nextId' = y.nextId
             /\ procs' = [procs EXCEPT ![i] = FrameOf(y)]
    /\ UNCHANGED <<call, ninv>>

----------------------------------------------------------------------------
(* Specifications *)

\* notifications handled one after another, on any store
Next == InvokeLambdaHandler
Spec == Init /\ [][Next]_vars

\* the same from an empty store
NextSeq == DeliverNotification
SpecSeq == InitEmpty /\ [][NextSeq]_vars

\* the functions of the module called directly, on any store
NextUnits == InvokeUpdateEvents \/ InvokeMatchingEvents
SpecUnits == Init /\ [][NextUnits]_vars

NextPackage == InvokeUpdatePackage
SpecPackage == Init /\ [][NextPackage]_vars

NextConfig == InvokeGetConfig
SpecConfig == InitEmpty /\ [][NextConfig]_vars

NextTrigger == InvokeSendNextServiceMessage
SpecTrigger == InitEmpty /\ [][NextTrigger]_vars

\* two instances of the function running at once, from an empty store
NextRace == \E i \in Instances : RaceStart(i) \/ RaceStep(i)
SpecRace == InitEmpty /\ [][NextRace]_vars

----------------------------------------------------------------------------
(* Vocabulary of the properties *)

Ended(f) == f.pc \in {"done", "failed"}

\* the events of a store that a message names
MatchesIn(store, m, byOutcome) ==
    {e \in store : /\ e.package = m.package_id
                   /\ e.service = m.service
                   /\ byOutcome => e.outcome = m.outcome}

PostsTo(f, path) ==
    {i \in 1..Len(f.reqs) : f.reqs[i].method = "post" /\ f.reqs[i].url.path = path}

Times(f, pc) == Cardinality({i \in 1..Len(f.ran) : f.ran[i] = pc})

\* a failure the surroundings caused: a refused HTTP request, a failing AWS call
EnvironmentError(f) == f.err \in {"HTTPError", "ClientError"}

\* a handler invocation that got as far as the duplicate check
Checked(f) ==
    /\ f.entry = "lambda_handler"
    /\ Ended(f)
    /\ HasKey(f.config, "ZODIAC_BASEURL")

----------------------------------------------------------------------------
(* C1: an invocation whose duplicate check finds, in the store, an event with
   the message's package_id, service and outcome POSTs nothing to /packages
   or /events, publishes nothing, and ends without error.  (Spec.) *)
C1_DuplicateIsNoOp ==
    ( /\ Checked(call)
      /\ ~EnvironmentError(call)
      /\ MatchesIn(call.pre, call.attributes, TRUE) # {} )
    => /\ PostsTo(call, "packages") = {}
       /\ PostsTo(call, "events") = {}
       /\ call.npub = 0
       /\ call.pc = "done"
       /\ call.err = "none"

(* C2: when a delivery of m returned without error and m is delivered again
   next, the second delivery POSTs nothing and publishes nothing.  The
   conclusion, C2_RedeliveryWritesNothing, holds, but no delivery ever
   returns without error (C2_NoDeliveryReturns is invariant), so the case
   the claim speaks of, C2_Redelivered, is never reached.  (SpecSeq.) *)
C2_Redelivered ==
    /\ ninv >= 2
    /\ call.prior = call.attributes
    /\ call.pc = "done"

C2_RedeliveryWritesNothing ==
    (ninv >= 2 /\ call.prior = call.attributes)
    => /\ PostsTo(call, "packages") = {}
       /\ PostsTo(call, "events") = {}
       /\ call.npub = 0

C2_NoDeliveryReturns == call.entry = "lambda_handler" => call.pc = "failed"

(* C3: with one invocation at a time and a store that starts without events
   and keys events by identifier, the store never holds two event records
   for the same (package_id, service).  (SpecSeq.) *)
C3_OneEventPerPair ==
    \A e1, e2 \in events :
        (e1.package = e2.package /\ e1.service = e2.service) => e1 = e2

\* two deliveries for the same package and service, with different outcomes,
\* have been handled
C3_SamePairTwice ==
    /\ ninv >= 2
    /\ Ended(call)
    /\ call.prior.package_id = call.attributes.package_id
    /\ call.prior.service = call.attributes.service
    /\ call.prior.outcome # call.attributes.outcome
    /\ HasKey(call.config, "ZODIAC_BASEURL")

(* C4: two concurrent invocations for the same (package_id, service,
   outcome) on an empty event list, neither of which saw an event for the
   pair when it read the store and neither of which the surroundings
   failed, both POST an event, and the store ends with two event records of
   different identifiers for the pair.  (SpecRace.) *)
C4_RaceWritesTwice ==
    \A i, j \in Instances :
        ( /\ i # j
          /\ Checked(procs[i]) /\ Checked(procs[j])
          /\ procs[i].attributes = procs[j].attributes
          /\ ~EnvironmentError(procs[i]) /\ ~EnvironmentError(procs[j])
          /\ MatchesIn(procs[i].pre, procs[i].attributes, TRUE) = {}
          /\ MatchesIn(procs[j].pre, procs[j].attributes, TRUE) = {}
          /\ procs[i].found = <<>> /\ procs[j].found = <<>> )
        => /\ PostsTo(procs[i], "events") # {}
           /\ PostsTo(procs[j], "events") # {}
           /\ Cardinality(MatchesIn(events, procs[i].attributes, FALSE)) = 2

\* what the code does instead: no interleaving of the two instances ever
\* writes an event
C4_NoInstanceWrites ==
    /\ events = {}
    /\ \A i \in Instances : PostsTo(procs[i], "events") = {}

(* C5: the GET send_http_request is asked for by matching_events (url and
   method only) completes without error unless the request is refused, and
   hands matching_events the store's list of events of the package.
   (SpecUnits.) *)
C5_GetReturnsBody ==
    ( /\ call.entry = "matching_events"
      /\ Ended(call)
      /\ call.err # "HTTPError" )
    => /\ call.err = "none"
       /\ call.received.py = "list"
       /\ call.received.v =
            SortById({e \in call.pre : e.package = call.attributes.package_id})

(* C6: when exactly one event exists for the message's (package_id,
   service), update_events issues exactly one POST to /events, with the
   message's outcome, service and package and that event's identifier, and
   generates no identifier.  (SpecUnits.) *)
C6_OneExistingReused ==
    ( /\ call.entry = "update_events"
      /\ Ended(call)
      /\ HasKey(call.config, "ZODIAC_BASEURL")
      /\ call.err # "HTTPError"
      /\ Cardinality(MatchesIn(call.pre, call.attributes, FALSE)) = 1 )
    => /\ Cardinality(PostsTo(call, "events")) = 1
       /\ call.nids = 0
       /\ \A i \in PostsTo(call, "events") :
            LET b == call.reqs[i].body
            IN /\ b.outcome = call.attributes.outcome
               /\ b.service = call.attributes.service
               /\ b.package = call.attributes.package_id
               /\ \E e \in MatchesIn(call.pre, call.attributes, FALSE) :
                        b.identifier = e.identifier

(* C7: when no event exists for the message's (package_id, service),
   update_events issues exactly one POST to /events, with the message's
   outcome, service and package and a newly generated identifier that no
   event of the store carries.  (SpecUnits.) *)
C7_NoneExistingCreated ==
    ( /\ call.entry = "update_events"
      /\ Ended(call)
      /\ HasKey(call.config, "ZODIAC_BASEURL")
      /\ call.err # "HTTPError"
      /\ MatchesIn(call.pre, call.attributes, FALSE) = {} )
    => /\ Cardinality(PostsTo(call, "events")) = 1
       /\ call.nids = 1
       /\ \A i \in PostsTo(call, "events") :
            LET b == call.reqs[i].body
            IN /\ b.outcome = call.attributes.outcome
               /\ b.service = call.attributes.service
               /\ b.package = call.attributes.package_id
               /\ \A e \in call.pre : b.identifier # e.identifier

(* C8: when two or more events exist for the message's (package_id,
   service), update_events raises its more-than-one-matching-event error,
   issues no POST to /events and leaves the event store as it was.
   (SpecUnits.) *)
C8_SeveralExistingFatal ==
    ( /\ call.entry = "update_events"
      /\ Ended(call)
      /\ HasKey(call.config, "ZODIAC_BASEURL")
      /\ call.err # "HTTPError"
      /\ Cardinality(MatchesIn(call.pre, call.attributes, FALSE)) >= 2 )
    => /\ call.pc = "failed"
       /\ call.err = "Exception"
       /\ PostsTo(call, "events") = {}
       /\ events = call.pre

(* C9: an invocation whose duplicate check finds no matching event runs the
   package upsert once and the event upsert once, and runs the next-service
   trigger exactly when the outcome is the string "SUCCESS".  (Spec.) *)
C9_TriggerOnlyOnSuccess ==
    ( /\ Checked(call)
      /\ call.err \notin {"HTTPError", "ClientError", "Exception"}
      /\ MatchesIn(call.pre, call.attributes, TRUE) = {} )
    => /\ Times(call, "update_package") = 1
       /\ Times(call, "update_events") = 1
       /\ Times(call, "update_events_post") = 1
       /\ Times(call, "send_next_service_message") =
            (IF call.attributes.outcome = "SUCCESS" THEN 1 ELSE 0)

(* C10: send_next_service_message, given a configuration that names the
   topic and AWS calls that succeed, publishes exactly one message for a
   current_service of the next-service map, with package_id, requested_status
   "START" and service fornax for ursa_major, aquarius for webhook; for any
   other current_service it publishes nothing and returns normally.
   (SpecTrigger.) *)
C10_PublishesMappedService ==
    LET a == call.attributes
    IN ( /\ call.entry = "send_next_service_message"
         /\ Ended(call) )
       => IF a.service \in {"ursa_major", "webhook"}
          THEN ( /\ HasKey(call.config, "SERVICE_START_SNS_TOPIC")
                 /\ call.err # "ClientError" )
               => /\ call.pc = "done"
                  /\ call.npub = 1
                  /\ published # <<>>
                  /\ published[Len(published)].package_id = a.package_id
                  /\ published[Len(published)].requested_status = "START"
                  /\ published[Len(published)].service =
                        (IF a.service = "ursa_major" THEN "fornax" ELSE "aquarius")
          ELSE /\ call.pc = "done"
               /\ call.err = "none"
               /\ call.npub = 0

\* a start message for fornax has been published for an ursa_major package
C10_Published ==
    /\ call.entry = "send_next_service_message"
    /\ call.pc = "done"
    /\ call.attributes.service = "ursa_major"
    /\ call.npub = 1
    /\ published # <<>>
    /\ published[Len(published)].service = "fornax"

(* C11: matching_events returns exactly the events of the package's list
   whose service equals the given service and, when an outcome is given,
   whose outcome equals it too; events of other services are never
   returned.  (SpecUnits.) *)
C11_FiltersByServiceAndOutcome ==
    ( /\ call.entry = "matching_events"
      /\ Ended(call)
      /\ call.err # "HTTPError" )
    => /\ call.pc = "done"
       /\ call.ret.py = "list"
       /\ call.ret.v =
            SortById({e \in call.pre :
                        /\ e.package = call.attributes.package_id
                        /\ e.service = call.attributes.service
                        /\ call.withOutcome =>
                                e.outcome = call.attributes.outcome})

(* C12: get_config never raises.  It returns the parameters taken in before
   a failure, or all of them when none occurs, one entry per parameter,
   keyed by the last segment of the parameter's name and holding its value.
   (SpecConfig.) *)
C12_ConfigFailsOpen ==
    ( /\ call.entry = "get_config"
      /\ Ended(call) )
    => LET read == call.ssm
           name(i) == read.params[i].Name
       IN /\ call.pc = "done"
          /\ call.err = "none"
          /\ Cardinality(DOMAIN call.config) = read.stop
          /\ \A i \in 1..read.stop :
                /\ name(i)[Len(name(i))] \in DOMAIN call.config
                /\ call.config[name(i)[Len(name(i))]] = read.params[i].Value

\* the read failed after one of several parameters, and that one was returned
C12_PartialConfig ==
    /\ call.entry = "get_config"
    /\ call.pc = "done"
    /\ call.ssm.stop = 1
    /\ Len(call.ssm.params) >= 2
    /\ DOMAIN call.config = {"foo"}
    /\ call.config["foo"] = <<"bar">>

(* C13: update_package, given a configuration with the base URL, issues
   exactly one request, a POST to {baseurl}/packages and no GET; its body
   carries the message's package_id, and carries package_data, parsed,
   exactly when the message has a package_data attribute.  (SpecPackage.) *)
C13_OnePackagePost ==
    ( /\ call.entry = "update_package"
      /\ Ended(call)
      /\ HasKey(call.config, "ZODIAC_BASEURL") )
    => /\ Len(call.reqs) = 1
       /\ call.reqs[1].method = "post"
       /\ call.reqs[1].url.path = "packages"
       /\ call.reqs[1].url.base = <<"https://zodiac/api">>
       /\ call.reqs[1].body.kind = "package"
       /\ call.reqs[1].body.package = call.attributes.package_id
       /\ call.reqs[1].body.package_data =
            (IF call.attributes.package_data = "absent" THEN "absent" ELSE "parsed")

\* a message with package_data has been POSTed and accepted
C13_PostedWithData ==
    /\ call.entry = "update_package"
    /\ call.pc = "done"
    /\ call.attributes.package_data = "json"
    /\ Len(call.reqs) = 1
    /\ call.reqs[1].body.package_data = "parsed"
    /\ packages[call.attributes.package_id] = "package_id+package_data"

(* C14: in an invocation that finds exactly one event for the message's
   (package_id, service), with another outcome than the message's, the event
   POST carries that event's identifier: the record is overwritten with the
   new outcome and no identifier is generated.  (Spec.) *)
C14_OutcomeOverwritten ==
    ( /\ Checked(call)
      /\ call.err # "HTTPError"
      /\ Cardinality(MatchesIn(call.pre, call.attributes, FALSE)) = 1
      /\ MatchesIn(call.pre, call.attributes, TRUE) = {} )
    => /\ Cardinality(PostsTo(call, "events")) = 1
       /\ call.nids = 0
       /\ \A i \in PostsTo(call, "events") :
            \E e \in MatchesIn(call.pre, call.attributes, FALSE) :
                call.reqs[i].body.identifier = e.identifier
       /\ Cardinality(MatchesIn(events, call.attributes, FALSE)) = 1
       /\ MatchesIn(events, call.attributes, TRUE) # {}

\* the statements of lambda_handler, in the order of lines 158-176
HandlerOrder == <<"get_config", "matching_events", "update_package",
                  "update_events", "update_events_post",
                  "send_next_service_message">>

(* C15: the statements of an invocation run in the order configuration load,
   duplicate check, package POST, event lookup, event POST, publish.  A
   package POST is preceded by a duplicate check on a store without a
   matching event, an event POST by an accepted package POST, and a publish
   by an accepted package POST and an accepted event POST.  (Spec.) *)
C15_FixedOrder ==
    call.entry = "lambda_handler"
    => /\ Len(call.ran) <= Len(HandlerOrder)
       /\ call.ran = SubSeq(HandlerOrder, 1, Len(call.ran))
       /\ PostsTo(call, "packages") # {}
            => /\ Times(call, "matching_events") = 1
               /\ MatchesIn(call.pre, call.attributes, TRUE) = {}
       /\ \A i \in PostsTo(call, "events") :
            \E j \in PostsTo(call, "packages") : j < i /\ call.reqs[j].ok
       /\ call.npub > 0
            => /\ \E j \in PostsTo(call, "packages") : call.reqs[j].ok
               /\ \E i \in PostsTo(call, "events") : call.reqs[i].ok

\* an invocation loaded its configuration and then ran the duplicate check
C15_CheckedAfterConfig ==
    /\ Checked(call)
    /\ call.ran = <<"get_config", "matching_events">>

(* C16: when an HTTP request of an invocation is refused, the invocation
   fails there: the refused request is its last, nothing is published, and
   the writes accepted before it stay.  The statement holds of every frame
   (C16_FailureEndsInvocation), but no invocation sends a request at all
   (C16_NoRequestIsSent is invariant), so the case the claim speaks of,
   C16_RequestRefused, is never reached.  (Spec.) *)
C16_RequestRefused ==
    /\ call.entry = "lambda_handler"
    /\ \E i \in 1..Len(call.reqs) : ~call.reqs[i].ok

C16_FailureEndsInvocation ==
    call.entry = "lambda_handler"
    => \A i \in 1..Len(call.reqs) :
            ~call.reqs[i].ok
            => /\ i = Len(call.reqs)
               /\ call.pc = "failed"
               /\ call.err = "HTTPError"
               /\ call.npub = 0
               /\ \A j \in PostsTo(call, "packages") :
                    j < i => packages[call.reqs[j].body.package] # "absent"

C16_NoRequestIsSent == call.entry = "lambda_handler" => call.reqs = <<>>

(* C17: send_next_service_message returns normally without publishing only
   when current_service is not in the next-service map; for a service in the
   map a failure on the way to the publish is raised, not swallowed.
   (SpecTrigger.) *)
C17_OnlyUnmappedReturnsSilently ==
    ( /\ call.entry = "send_next_service_message"
      /\ call.pc = "done"
      /\ call.npub = 0 )
    => call.attributes.service \notin {"ursa_major", "webhook"}

(* C18: when get_config has failed open and the configuration lacks
   ZODIAC_BASEURL, the invocation of lambda_handler ends with a KeyError,
   raised while the arguments of the duplicate check are evaluated: no HTTP
   request has been sent and nothing has been published.  (Spec.) *)
C18_MissingBaseUrlIsKeyError ==
    ( /\ call.entry = "lambda_handler"
      /\ Ended(call)
      /\ ~HasKey(call.config, "ZODIAC_BASEURL") )
    => /\ call.pc = "failed"
       /\ call.err = "KeyError"
       /\ call.ran = <<"get_config", "matching_events">>
       /\ call.reqs = <<>>
       /\ call.npub = 0
       /\ published = <<>>

C18_FailedOpenWithoutBaseUrl ==
    /\ call.entry = "lambda_handler"
    /\ call.pc = "failed"
    /\ call.err = "KeyError"
    /\ call.ssm.stop < Len(call.ssm.params)
    /\ ~HasKey(call.config, "ZODIAC_BASEURL")

(* C19: the state 'a SUCCESS event is recorded for a package and a service of
   the next-service map, and no START message was published' is reached by
   an invocation that gets through its writes and then publishes nothing:
   whenever an invocation for such a message, on a store without an event of
   the pair, is not refused by the API, does not stop at several existing
   events and publishes nothing, the store records the SUCCESS event (and
   re-delivery, a no-op by the duplicate check, then never leaves the
   state).  (SpecSeq.) *)
C19_LostTriggerStateReached ==
    ( /\ Checked(call)
      /\ call.attributes.outcome = "SUCCESS"
      /\ call.attributes.service \in {"ursa_major", "webhook"}
      /\ MatchesIn(call.pre, call.attributes, FALSE) = {}
      /\ call.err \notin {"HTTPError", "Exception"}
      /\ call.npub = 0 )
    => MatchesIn(events, call.attributes, TRUE) # {}

\* no delivery ever records an event or publishes: the state is not entered
C19_NothingRecorded == events = {} /\ published = <<>>

====
